---- MODULE Spec2Model ----
(***************************************************************************)
(* A model of utils_3d: Vector (src/vector.rs), Ray and RayTarget          *)
(* (src/ray_tracing), Triangle (src/shapes/triangle.rs).                   *)
(*                                                                         *)
(* Numbers.  The library computes in f32, and so does the model: a number  *)
(* is an IEEE 754 binary32 value, and every arithmetic operation returns   *)
(* the exact result rounded to the nearest binary32 value, ties to even,   *)
(* with gradual underflow, overflow to an infinity, signed zeros and NaN.  *)
(* A finite value is [s, m, e], standing for (-1)^s * m * 2^e with m odd   *)
(* (or m = 0, e = 0), m < 2^24 and e >= -149.  All NaNs are one value.     *)
(***************************************************************************)
EXTENDS Integers, Sequences, FiniteSets, TLC

\* ------------------------------------------------------------- bounds

\* ray starts have integer coordinates in 0..MaxStart
MaxStart == 2
\* the reflections the caller follows
MaxBounce == 2
\* corners and points of SpecArea and SpecContains have coordinates in
\* 0..MaxCorner
MaxCorner == 2
\* operands of SpecCross have coordinates in 0..MaxVec before normalization
MaxVec == 2
\* directions of SpecRayNew have coordinates in -MaxDir..MaxDir before scaling
MaxDir == 2
\* directions of SpecRayNew are scaled by 2^k, k a multiple of MaxScale up
\* to twice MaxScale in magnitude
MaxScale == 40

\* ---------------------------------------------------------------- f32

\* std::f32::MANTISSA_DIGITS: the bits of a significand
MANTISSA_DIGITS == 24
\* the exponent of the smallest subnormal, 2^-149
MIN_EXP == -149
\* the largest finite value is below 2^128
MAX_EXP == 128

Abs(i) == IF i < 0 THEN -i ELSE i

Max(i, j) == IF i >= j THEN i ELSE j

\* the number of bits of i >= 0: the least L with i < 2^L
RECURSIVE BitLen(_)
BitLen(i) == IF i = 0 THEN 0 ELSE 1 + BitLen(i \div 2)

Fin(s, m, e) == [k |-> "fin", s |-> s, m |-> m, e |-> e]

Zero(s) == Fin(s, 0, 0)

NaN == [k |-> "nan", s |-> 0, m |-> 0, e |-> 0]

Inf(s) == [k |-> "inf", s |-> s, m |-> 0, e |-> 0]

\* (-1)^s * m * 2^e for m < 2^24 (exactly representable), in canonical form
RECURSIVE Canon(_, _, _)
Canon(s, m, e) ==
    IF m = 0 THEN Zero(s)
    ELSE IF m % 2 = 0 THEN Canon(s, m \div 2, e + 1)
    ELSE Fin(s, m, e)

\* r < 2^24 times 2^e as a value: an infinity when it is 2^128 or more
Finish(s, r, e) ==
    IF BitLen(r) + e > MAX_EXP THEN Inf(s) ELSE Canon(s, r, e)

\* q + (rem + f) / (2 * half) to the nearest integer, ties to even, times 2^e
RoundUp(s, q, rem, half, sticky, e) ==
    Finish(s,
           IF rem > half \/ (rem = half /\ (sticky \/ q % 2 = 1))
           THEN q + 1 ELSE q,
           e)

\* Round, dropping the low shift bits of m
RoundAt(s, m, e, sticky, len, shift) ==
    IF shift > len THEN Zero(s)
    ELSE IF shift = 0 THEN Finish(s, m, e)
    ELSE RoundUp(s, m \div 2 ^ shift, m % 2 ^ shift, 2 ^ (shift - 1),
                 sticky, e + shift)

\* Round of an m of len bits: the bits beyond the 24 of a significand and
\* those below 2^-149 are dropped
RoundLen(s, m, e, sticky, len) ==
    RoundAt(s, m, e, sticky, len,
            Max(Max(len - MANTISSA_DIGITS, MIN_EXP - e), 0))

\* The binary32 value nearest to (-1)^s * (m + f) * 2^e, ties to even, where
\* m < 2^31, and f = 0 if sticky is FALSE and 0 < f < 1 otherwise.  With
\* sticky TRUE, m has at least 26 bits.
Round(s, m, e, sticky) == RoundLen(s, m, e, sticky, BitLen(m))

\* the f32 of an integer literal
Int2f32(i) == Round(IF i < 0 THEN 1 ELSE 0, Abs(i), 0, FALSE)

\* std::f32::EPSILON = 2^-23
EPSILON == Fin(0, 1, -23)

f32_neg(x) == IF x.k = "nan" THEN NaN ELSE [x EXCEPT !.s = 1 - x.s]

f32_abs(x) == IF x.k = "nan" THEN NaN ELSE [x EXCEPT !.s = 0]

\* H * 2^24 + L, H of h + 6 bits, as <<m, h, sticky>>: the top 30 bits m,
\* the h bits dropped, and whether any of them was set
Top30(H, L, h) ==
    <<H * 2 ^ (24 - h) + L \div 2 ^ h, h, L % 2 ^ h # 0>>

\* (ah * 2^12 + al) * (bh * 2^12 + bl) from products that fit 31 bits
ProductWide(ah, al, bh, bl) ==
    LET mid == ah * bl + al * bh
    IN  Top30(ah * bh + mid \div 4096 + (al * bl + (mid % 4096) * 4096) \div 16777216,
              (al * bl + (mid % 4096) * 4096) % 16777216,
              BitLen(ah * bh + mid \div 4096
                     + (al * bl + (mid % 4096) * 4096) \div 16777216) - 6)

\* the product a * b of two significands as <<m, shift, sticky>>:
\* a * b = (m + f) * 2^shift, f = 0 unless sticky, m < 2^30
Product(a, b) ==
    IF BitLen(a) + BitLen(b) <= 30 THEN <<a * b, 0, FALSE>>
    ELSE ProductWide(a \div 4096, a % 4096, b \div 4096, b % 4096)

\* Round of a <<m, shift, sticky>>
RoundProduct(s, e, p) == Round(s, p[1], e + p[2], p[3])

f32_mul(x, y) ==
    CASE x.k = "nan" \/ y.k = "nan" -> NaN
      [] x.k = "inf" \/ y.k = "inf" ->
            IF (x.k = "fin" /\ x.m = 0) \/ (y.k = "fin" /\ y.m = 0)
            THEN NaN ELSE Inf((x.s + y.s) % 2)
      [] OTHER ->
            RoundProduct((x.s + y.s) % 2, x.e + y.e, Product(x.m, y.m))

\* bits more quotient bits of r / b appended to q: <<quotient, remainder # 0>>
RECURSIVE Quotient(_, _, _, _)
Quotient(r, b, bits, q) ==
    IF bits = 0 THEN <<q, r # 0>>
    ELSE IF r >= b THEN Quotient(2 * (r - b), b, bits - 1, 2 * q + 1)
    ELSE Quotient(2 * r, b, bits - 1, 2 * q)

\* Round of a <<m, sticky>>
RoundPair(s, e, q) == Round(s, q[1], e, q[2])

\* the quotient of two finite non-zero values whose significands, shifted
\* left by la and lb, have 24 bits
DivAligned(x, y, la, lb) ==
    RoundPair((x.s + y.s) % 2, (x.e - la) - (y.e - lb) - 27,
              Quotient(x.m * 2 ^ la, y.m * 2 ^ lb, 28, 0))

f32_div(x, y) ==
    CASE x.k = "nan" \/ y.k = "nan" -> NaN
      [] x.k = "inf" -> IF y.k = "inf" THEN NaN ELSE Inf((x.s + y.s) % 2)
      [] y.k = "inf" -> Zero((x.s + y.s) % 2)
      [] y.m = 0 -> IF x.m = 0 THEN NaN ELSE Inf((x.s + y.s) % 2)
      [] x.m = 0 -> Zero((x.s + y.s) % 2)
      [] OTHER ->
            DivAligned(x, y, MANTISSA_DIGITS - BitLen(x.m),
                       MANTISSA_DIGITS - BitLen(y.m))

\* (-1)^sb * mb * 2^e + (-1)^ss * (ms + f) * 2^e, f = 0 unless sticky
AddMagnitudes(sb, mb, ss, ms, e, sticky) ==
    IF sb = ss THEN Round(sb, mb + ms, e, sticky)
    ELSE IF mb = ms /\ ~sticky THEN Zero(0)
    ELSE IF mb > ms
    THEN Round(sb, mb - ms - (IF sticky THEN 1 ELSE 0), e, sticky)
    ELSE Round(ss, ms - mb, e, FALSE)

\* big + small, the significand of big at 2^e and d binary places above
\* that of small
AddAligned(big, small, mb, e, d) ==
    AddMagnitudes(big.s, mb, small.s,
                  IF d <= 0 THEN small.m * 2 ^ (-d)
                  ELSE IF d >= MANTISSA_DIGITS THEN 0
                  ELSE small.m \div 2 ^ d,
                  e,
                  IF d <= 0 THEN FALSE
                  ELSE IF d >= MANTISSA_DIGITS THEN TRUE
                  ELSE small.m % 2 ^ d # 0)

\* big + small, the significand of big shifted left by up, to 29 bits
AddOrdered(big, small, up) ==
    AddAligned(big, small, big.m * 2 ^ up, big.e - up, big.e - up - small.e)

\* the sum of two finite values, neither zero
AddFinite(x, y) ==
    IF BitLen(x.m) + x.e >= BitLen(y.m) + y.e
    THEN AddOrdered(x, y, 29 - BitLen(x.m))
    ELSE AddOrdered(y, x, 29 - BitLen(y.m))

f32_add(x, y) ==
    CASE x.k = "nan" \/ y.k = "nan" -> NaN
      [] x.k = "inf" /\ y.k = "inf" -> IF x.s = y.s THEN x ELSE NaN
      [] x.k = "inf" -> x
      [] y.k = "inf" -> y
      [] x.m = 0 /\ y.m = 0 -> Zero(IF x.s = 1 /\ y.s = 1 THEN 1 ELSE 0)
      [] x.m = 0 -> y
      [] y.m = 0 -> x
      [] OTHER -> AddFinite(x, y)

f32_sub(x, y) == f32_add(x, f32_neg(y))

\* one more bit of the root: r is the remainder with the next bit pair
\* appended
RECURSIVE Root(_, _, _, _)
RootStep(a, pairs, root, r) ==
    IF r >= 4 * root + 1 THEN Root(a, pairs - 1, 2 * root + 1, r - (4 * root + 1))
    ELSE Root(a, pairs - 1, 2 * root, r)

\* the square root of a * 4^pairs bit pair by bit pair, from the top pair of
\* the 26-bit a: <<root, remainder # 0>>
Root(a, pairs, root, rem) ==
    IF pairs = 0 THEN <<root, rem # 0>>
    ELSE RootStep(a, pairs, root,
                  4 * rem + (IF pairs > 13 THEN (a \div 4 ^ (pairs - 14)) % 4 ELSE 0))

\* the root of a finite positive x, its significand shifted left by up to 25
\* or 26 bits and an even exponent
SqrtAligned(x, up) ==
    RoundPair(0, (x.e - up - 26) \div 2, Root(x.m * 2 ^ up, 26, 0, 0))

f32_sqrt(x) ==
    CASE x.k = "nan" -> NaN
      [] x.k = "fin" /\ x.m = 0 -> x
      [] x.s = 1 -> NaN
      [] x.k = "inf" -> x
      [] OTHER ->
            SqrtAligned(x, 25 - BitLen(x.m)
                           + (IF (x.e - (25 - BitLen(x.m))) % 2 = 0 THEN 0 ELSE 1))

\* diff <= 0 for a diff that is not NaN
NotPositive(diff) == (diff.k = "fin" /\ diff.m = 0) \/ diff.s = 1

\* x <= y; false when either is NaN
f32_le(x, y) ==
    IF x.k = "nan" \/ y.k = "nan" THEN FALSE
    ELSE IF x.k = "inf" THEN x.s = 1 \/ x = y
    ELSE IF y.k = "inf" THEN y.s = 0
    ELSE NotPositive(f32_sub(x, y))

\* x == y; false when either is NaN
f32_eq(x, y) ==
    IF x.k = "nan" \/ y.k = "nan" THEN FALSE
    ELSE IF x.k = "inf" \/ y.k = "inf" THEN x = y
    ELSE x.m = y.m /\ x.e = y.e /\ (x.m = 0 \/ x.s = y.s)

\* ------------------------------------------------------------- Vector

Vector(x, y, z) == [x |-> x, y |-> y, z |-> z]

\* Vector::from((x, y, z)) of three integers
Vec(i, j, k) == Vector(Int2f32(i), Int2f32(j), Int2f32(k))

\* cross with the operands of the y component swapped
cross_sign_slip(self, rhs) ==
    Vector(f32_sub(f32_mul(self.y, rhs.z), f32_mul(self.z, rhs.y)),
           f32_sub(f32_mul(self.x, rhs.z), f32_mul(self.z, rhs.x)),
           f32_sub(f32_mul(self.x, rhs.y), f32_mul(self.y, rhs.x)))

cross(self, rhs) ==
    Vector(f32_sub(f32_mul(self.y, rhs.z), f32_mul(self.z, rhs.y)),
           f32_sub(f32_mul(self.z, rhs.x), f32_mul(self.x, rhs.z)),
           f32_sub(f32_mul(self.x, rhs.y), f32_mul(self.y, rhs.x)))

add(self, rhs) ==
    Vector(f32_add(self.x, rhs.x), f32_add(self.y, rhs.y), f32_add(self.z, rhs.z))

sub(self, rhs) ==
    Vector(f32_sub(self.x, rhs.x), f32_sub(self.y, rhs.y), f32_sub(self.z, rhs.z))

\* Vector * Vector: the dot product
mul(self, rhs) ==
    f32_add(f32_add(f32_mul(self.x, rhs.x), f32_mul(self.y, rhs.y)),
            f32_mul(self.z, rhs.z))

\* Vector * f32
mul_f32(self, rhs) ==
    Vector(f32_mul(self.x, rhs), f32_mul(self.y, rhs), f32_mul(self.z, rhs))

\* Vector / f32
div_f32(self, rhs) ==
    Vector(f32_div(self.x, rhs), f32_div(self.y, rhs), f32_div(self.z, rhs))

neg(self) == Vector(f32_neg(self.x), f32_neg(self.y), f32_neg(self.z))

length_sq(self) == mul(self, self)

length(self) == f32_sqrt(length_sq(self))

norm(self) == div_f32(self, length(self))

\* Vector == Vector: every component within EPSILON
eq(self, rhs) ==
    /\ f32_le(f32_abs(f32_sub(self.x, rhs.x)), EPSILON)
    /\ f32_le(f32_abs(f32_sub(self.y, rhs.y)), EPSILON)
    /\ f32_le(f32_abs(f32_sub(self.z, rhs.z)), EPSILON)

\* -------------------------------------------------------------- Option

None == <<>>

Some(v) == <<v>>

is_some(o) == o # None

unwrap(o) == o[1]

\* ---------------------------------------------------- Ray, HitInfo

HitInfo(point, normal, color, reflect_factor) ==
    [point |-> point, normal |-> normal,
     color |-> color, reflect_factor |-> reflect_factor]

Ray(start, direction) == [start |-> start, direction |-> direction]

\* Ray::new keeping the direction as supplied
Ray_new_as_given(start, direction) == Ray(start, direction)

Ray_new(start, direction) == Ray(start, norm(direction))

\* reflect_dir without the factor 2
reflect_dir_single(self, hit) ==
    sub(self.direction, mul_f32(hit.normal, mul(hit.normal, self.direction)))

\* the direction reflect hands to Ray::new
reflect_dir(self, hit) ==
    sub(self.direction,
        mul_f32(mul_f32(hit.normal, Int2f32(2)), mul(hit.normal, self.direction)))

\* reflect with the start moved off the surface by EPSILON along the normal
reflect_with_offset(self, hit) ==
    Ray_new(add(hit.point, mul_f32(hit.normal, EPSILON)), reflect_dir(self, hit))

reflect(self, hit) == Ray_new(hit.point, reflect_dir(self, hit))

\* ------------------------------------------------------------ Triangle

Triangle_new(a, b, c) == [corners |-> <<a, b, c>>]

\* self[index], index in 0..2
index(self, i) == self.corners[i + 1]

\* area without the factor 0.5
area_of_parallelogram(self) ==
    length(cross(sub(index(self, 1), index(self, 0)),
                 sub(index(self, 2), index(self, 0))))

area(self) ==
    f32_mul(Fin(0, 1, -1),
            length(cross(sub(index(self, 1), index(self, 0)),
                         sub(index(self, 2), index(self, 0)))))

normal(self) ==
    norm(cross(sub(index(self, 1), index(self, 0)),
               sub(index(self, 2), index(self, 0))))

\* the pairs (a, b) the two loops of contains visit
CornerPairs == {ab \in (0 .. 1) \X (0 .. 2) : ab[1] + 1 <= ab[2]}

contains(self, point) ==
    LET neg_count ==
            Cardinality({ab \in CornerPairs :
                f32_le(mul(sub(index(self, ab[1]), point),
                           sub(index(self, ab[2]), point)), Zero(0))})
    IN  neg_count >= 2

\* hit_info taking a parallel ray to hit where it starts
hit_info_parallel_hits(self, ray) ==
    LET n == normal(self)
        a == mul(sub(index(self, 0), ray.start), n)
        b == mul(ray.direction, n)
    IN  LET point == IF f32_eq(b, Zero(0)) THEN ray.start
                     ELSE add(ray.start, div_f32(mul_f32(ray.direction, a), b))
        IN  IF contains(self, point)
            THEN Some(HitInfo(point, n, None, None))
            ELSE None

\* hit_info computing t = a / b first
hit_info_quotient_first(self, ray) ==
    LET n == normal(self)
        a == mul(sub(index(self, 0), ray.start), n)
        b == mul(ray.direction, n)
    IN  IF f32_eq(b, Zero(0)) THEN None
        ELSE LET point == add(ray.start, mul_f32(ray.direction, f32_div(a, b)))
             IN  IF contains(self, point)
                 THEN Some(HitInfo(point, n, None, None))
                 ELSE None

\* hit_info reporting no hit behind the start of the ray
hit_info_forward_only(self, ray) ==
    LET n == normal(self)
        a == mul(sub(index(self, 0), ray.start), n)
        b == mul(ray.direction, n)
    IN  IF f32_eq(b, Zero(0)) \/ ~f32_le(Zero(0), f32_div(a, b)) THEN None
        ELSE LET point == add(ray.start, div_f32(mul_f32(ray.direction, a), b))
             IN  IF contains(self, point)
                 THEN Some(HitInfo(point, n, None, None))
                 ELSE None

hit_info(self, ray) ==
    LET n == normal(self)
        a == mul(sub(index(self, 0), ray.start), n)
        b == mul(ray.direction, n)
    IN  IF f32_eq(b, Zero(0)) THEN None
        ELSE LET point == add(ray.start, div_f32(mul_f32(ray.direction, a), b))
             IN  IF contains(self, point)
                 THEN Some(HitInfo(point, n, None, None))
                 ELSE None

\* ----------------------------------------------------------- RayTarget

\* hit_point taking the normal field for the point
hit_point_of_normal(self, ray) ==
    LET i == hit_info(self, ray)
    IN  IF is_some(i) THEN Some(unwrap(i).normal) ELSE None

hit_point(self, ray) ==
    LET i == hit_info(self, ray)
    IN  IF is_some(i) THEN Some(unwrap(i).point) ELSE None

hits(self, ray) == is_some(hit_point(self, ray))

\* ------------------------------------------------------------- inputs

Grid(lo, hi) == {Vec(x, y, z) : x \in lo .. hi, y \in lo .. hi, z \in lo .. hi}

\* in the plane z = 0, its normal (0, 0, 1)
FlatTriangle == Triangle_new(Vec(0, 0, 0), Vec(1, 0, 0), Vec(0, 1, 0))

\* in the plane x = 0, its normal (1, 0, 0)
SideTriangle == Triangle_new(Vec(0, 0, 0), Vec(0, 1, 0), Vec(0, 0, 1))

\* in the plane y = 0, its normal (0, -1, 0)
BackTriangle == Triangle_new(Vec(0, 0, 0), Vec(1, 0, 0), Vec(0, 0, 1))

\* its normal (-3, 1, 1) / sqrt(11) is not representable
TiltedTriangle == Triangle_new(Vec(0, 0, 0), Vec(1, 1, 2), Vec(1, 2, 1))

\* the triangle of tests::triangle_area
TestTriangle == Triangle_new(Vec(2, 1, 0), Vec(1, 3, 2), Vec(1, 1, 1))

Triangles == {FlatTriangle, SideTriangle, BackTriangle, TiltedTriangle}

Starts == Grid(0, MaxStart)

\* the supplied directions: zero, and along the axes and diagonals
Directions == Grid(-1, 1)

\* the triangles with a corner at the origin and two more on the grid, zero
\* areas included
CornerTriangles ==
    {Triangle_new(Vec(0, 0, 0), c1, c2) : c1 \in Grid(0, MaxCorner), c2 \in Grid(0, MaxCorner)}

\* the operands of cross: grid vectors and their normalizations
Operands == Grid(0, MaxVec) \cup {norm(v) : v \in Grid(0, MaxVec) \ {Vec(0, 0, 0)}}

\* self * 2^k
scale(self, k) == mul_f32(self, Fin(0, 1, k))

\* the directions supplied to Ray::new: grid vectors, as they are and scaled
\* far up and far down
Supplied ==
    {scale(v, k) : v \in Grid(-MaxDir, MaxDir), k \in {-2 * MaxScale, -MaxScale, 0, MaxScale, 2 * MaxScale}}

\* the unit normals along the axes, and one that is not
Normals ==
    {Vec(1, 0, 0), Vec(-1, 0, 0), Vec(0, 1, 0), Vec(0, -1, 0), Vec(0, 0, 1),
     Vec(0, 0, -1), normal(TiltedTriangle)}

\* --------------------------------------------------------------- state

VARIABLES
    tri,      \* the Triangle
    ray,      \* the Ray being traced
    info,     \* what tri.hit_info(&ray) returned
    point,    \* what tri.hit_point(&ray) returned
    hit,      \* what tri.hits(&ray) returned
    prev,     \* the ray and the HitInfo the current ray was reflected from
    bounce,   \* the reflections so far
    pc,       \* the call the caller makes next
    args,     \* the arguments of a single call
    ret       \* what that call returned

vars == <<tri, ray, info, point, hit, prev, bounce, pc, args, ret>>

\* ------------------------------------------- a caller tracing one ray

Init ==
    /\ tri \in Triangles
    /\ \E start \in Starts, direction \in Directions :
            ray = Ray_new(start, direction)
    /\ info = None
    /\ point = None
    /\ hit = FALSE
    /\ prev = None
    /\ bounce = 0
    /\ pc = "hit_info"
    /\ args = None
    /\ ret = None

CallHitInfo ==
    /\ pc = "hit_info"
    /\ info' = hit_info(tri, ray)
    /\ pc' = "hit_point"
    /\ UNCHANGED <<tri, ray, point, hit, prev, bounce, args, ret>>

CallHitPoint ==
    /\ pc = "hit_point"
    /\ point' = hit_point(tri, ray)
    /\ pc' = "hits"
    /\ UNCHANGED <<tri, ray, info, hit, prev, bounce, args, ret>>

CallHits ==
    /\ pc = "hits"
    /\ hit' = hits(tri, ray)
    /\ pc' = "reflect"
    /\ UNCHANGED <<tri, ray, info, point, prev, bounce, args, ret>>

CallReflect ==
    /\ pc = "reflect"
    /\ is_some(info)
    /\ bounce < MaxBounce
    /\ ray' = reflect(ray, unwrap(info))
    /\ prev' = Some([ray |-> ray, hit |-> unwrap(info)])
    /\ info' = None
    /\ point' = None
    /\ hit' = FALSE
    /\ bounce' = bounce + 1
    /\ pc' = "hit_info"
    /\ UNCHANGED <<tri, args, ret>>

Next == CallHitInfo \/ CallHitPoint \/ CallHits \/ CallReflect

Spec == Init /\ [][Next]_vars

\* ------------------------------------------------------- single calls

\* the variables a single call leaves alone
Idle ==
    /\ info = None
    /\ point = None
    /\ hit = FALSE
    /\ prev = None
    /\ bounce = 0

\* ray.reflect(&hit) of any ray and any hit record
InitReflect ==
    /\ tri = FlatTriangle
    /\ \E start \in Grid(0, 1), direction \in Directions \ {Vec(0, 0, 0)} :
            ray = Ray_new(start, direction)
    /\ \E p \in Grid(0, 1), n \in Normals : args = HitInfo(p, n, None, None)
    /\ Idle
    /\ pc = "reflect"
    /\ ret = None

DoReflect ==
    /\ pc = "reflect"
    /\ ret' = Some(reflect(ray, args))
    /\ pc' = "done"
    /\ UNCHANGED <<tri, ray, info, point, hit, prev, bounce, args>>

SpecReflect == InitReflect /\ [][DoReflect]_vars

\* Ray::new(start, direction)
InitRayNew ==
    /\ tri = FlatTriangle
    /\ ray = Ray(Vec(0, 0, 0), Vec(0, 0, 0))
    /\ \E start \in {Vec(0, 0, 0), Vec(1, -2, 3)}, direction \in Supplied :
            args = [start |-> start, direction |-> direction]
    /\ Idle
    /\ pc = "new"
    /\ ret = None

DoRayNew ==
    /\ pc = "new"
    /\ ret' = Some(Ray_new(args.start, args.direction))
    /\ pc' = "done"
    /\ UNCHANGED <<tri, ray, info, point, hit, prev, bounce, args>>

SpecRayNew == InitRayNew /\ [][DoRayNew]_vars

\* a.cross(b)
InitCross ==
    /\ tri = FlatTriangle
    /\ ray = Ray(Vec(0, 0, 0), Vec(0, 0, 0))
    /\ \E a \in Grid(0, MaxVec), b \in Operands : args = [a |-> a, b |-> b]
    /\ Idle
    /\ pc = "cross"
    /\ ret = None

DoCross ==
    /\ pc = "cross"
    /\ ret' = Some(cross(args.a, args.b))
    /\ pc' = "done"
    /\ UNCHANGED <<tri, ray, info, point, hit, prev, bounce, args>>

SpecCross == InitCross /\ [][DoCross]_vars

\* tri.area()
InitArea ==
    /\ tri \in CornerTriangles \cup {TestTriangle}
    /\ ray = Ray(Vec(0, 0, 0), Vec(0, 0, 0))
    /\ Idle
    /\ pc = "area"
    /\ args = None
    /\ ret = None

DoArea ==
    /\ pc = "area"
    /\ ret' = Some(area(tri))
    /\ pc' = "done"
    /\ UNCHANGED <<tri, ray, info, point, hit, prev, bounce, args>>

SpecArea == InitArea /\ [][DoArea]_vars

\* tri.contains(point)
InitContains ==
    /\ tri \in CornerTriangles
    /\ ray = Ray(Vec(0, 0, 0), Vec(0, 0, 0))
    /\ args \in Grid(0, MaxCorner)
    /\ Idle
    /\ pc = "contains"
    /\ ret = None

DoContains ==
    /\ pc = "contains"
    /\ ret' = Some(contains(tri, args))
    /\ pc' = "done"
    /\ UNCHANGED <<tri, ray, info, point, hit, prev, bounce, args>>

SpecContains == InitContains /\ [][DoContains]_vars

\* -------------------------------------------------- used by the claims

\* x == y on every component, as f32 compares
same(u, v) == f32_eq(u.x, v.x) /\ f32_eq(u.y, v.y) /\ f32_eq(u.z, v.z)

\* |x - y| <= tol
Near(x, y, tol) == f32_le(f32_abs(f32_sub(x, y)), tol)

\* x is a normal number: finite, and 2^-126 or more in magnitude
IsNormal(x) ==
    x.k = "fin" /\ x.m # 0 /\ BitLen(x.m) + x.e > MIN_EXP + MANTISSA_DIGITS - 1

\* x is an integer of magnitude at most 100
IsSmallInt(x) ==
    x.k = "fin" /\ (x.m = 0 \/ (x.e >= 0 /\ x.e <= 6 /\ x.m * 2 ^ x.e <= 100))

IsSmallIntVector(v) == IsSmallInt(v.x) /\ IsSmallInt(v.y) /\ IsSmallInt(v.z)

HasNaN(v) == v.x.k = "nan" \/ v.y.k = "nan" \/ v.z.k = "nan"

\* a and b as hit_info computes them
plane_a(self, r) == mul(sub(index(self, 0), r.start), normal(self))

plane_b(self, r) == mul(r.direction, normal(self))

\* the point hit_info computes: the direction times a, then divided by b
crossing(self, r) ==
    add(r.start, div_f32(mul_f32(r.direction, plane_a(self, r)), plane_b(self, r)))

\* start + direction * (a / b): a divided by b first
crossing_t(self, r) ==
    add(r.start, mul_f32(r.direction, f32_div(plane_a(self, r), plane_b(self, r))))

\* (corner1 - corner0) x (corner2 - corner0)
edge_cross(self) ==
    cross(sub(index(self, 1), index(self, 0)), sub(index(self, 2), index(self, 0)))

\* p is on the side of the edge from corner i to corner j where the
\* triangle is, or on the edge's line (exact for small integer coordinates)
InHalfPlane(self, i, j, p) ==
    f32_le(Zero(0),
           mul(cross(sub(index(self, j), index(self, i)), sub(p, index(self, i))),
               edge_cross(self)))

InClosedTriangle(self, p) ==
    InHalfPlane(self, 0, 1, p) /\ InHalfPlane(self, 1, 2, p) /\ InHalfPlane(self, 2, 0, p)

OnPlane(self, p) == f32_eq(mul(sub(p, index(self, 0)), edge_cross(self)), Zero(0))

NonZeroArea(self) == ~f32_eq(length_sq(edge_cross(self)), Zero(0))

\* --------------------------------------------------------------- claims

\* C1: when hit_info has returned for a ray whose direction has dot product
\* exactly zero with the triangle's normal, it has returned None.
ParallelRayNoHit ==
    (pc = "hit_point" /\ f32_eq(plane_b(tri, ray), Zero(0))) => info = None

\* C1 witness: a ray that starts at a corner and runs in the plane through
\* the inside of the triangle has got None.
ParallelRayInPlane ==
    /\ pc = "hit_point"
    /\ f32_eq(plane_b(tri, ray), Zero(0))
    /\ f32_eq(plane_a(tri, ray), Zero(0))
    /\ ray.start = index(tri, 0)
    /\ InClosedTriangle(tri, add(ray.start, mul_f32(ray.direction, Fin(0, 1, -1))))
    /\ info = None

\* C2 as stated: for a triangle of non-zero area and a point on its plane,
\* contains is true if and only if the point is in the closed triangle.
ContainsIsInsideTest ==
    (pc = "done" /\ NonZeroArea(tri) /\ OnPlane(tri, args))
        => (unwrap(ret) <=> InClosedTriangle(tri, args))

\* C3: once the three queries have returned for a ray, hits is true exactly
\* when hit_point is Some, hit_point is Some exactly when hit_info is Some,
\* and a present hit_point is the point field of hit_info.
QueriesAgree ==
    pc = "reflect" =>
        /\ hit = is_some(point)
        /\ is_some(point) = is_some(info)
        /\ is_some(info) => unwrap(point) = unwrap(info).point

\* C3 witness: the three queries have returned for a ray that hits.
QueriesAgreeOnHit ==
    pc = "reflect" /\ hit /\ is_some(point) /\ is_some(info)

\* C4 as amended: a hit returned by hit_info has point = start +
\* (direction * a) / b, that point satisfies contains, normal is normal() of
\* the triangle and color and reflect_factor are None; when the computed
\* point does not satisfy contains, the result is None.
HitRecord ==
    pc = "hit_point" =>
        /\ is_some(info) =>
            /\ unwrap(info).point = crossing(tri, ray)
            /\ contains(tri, unwrap(info).point)
            /\ unwrap(info).normal = normal(tri)
            /\ unwrap(info).color = None
            /\ unwrap(info).reflect_factor = None
        /\ ~contains(tri, crossing(tri, ray)) => info = None

\* C4 witness: a hit whose point is not start + direction * (a / b).
HitRecordOrderMatters ==
    /\ pc = "hit_point"
    /\ is_some(info)
    /\ ~same(crossing(tri, ray), crossing_t(tri, ray))

\* C4 as stated: the point of a hit is start + direction * (a / b).
HitRecordQuotientFirst ==
    pc = "hit_point" =>
        /\ is_some(info) =>
            /\ same(unwrap(info).point, crossing_t(tri, ray))
            /\ contains(tri, unwrap(info).point)
            /\ unwrap(info).normal = normal(tri)
            /\ unwrap(info).color = None
            /\ unwrap(info).reflect_factor = None
        /\ ~contains(tri, crossing_t(tri, ray)) => info = None

\* the direction C5 gives the reflected ray
ReflectedDirection(incoming, n) ==
    norm(sub(incoming, mul_f32(mul_f32(n, Int2f32(2)), mul(n, incoming))))

AxisNormals == Normals \ {normal(TiltedTriangle)}

\* C5: reflect returns a ray that starts at hit.point with direction
\* norm(incoming - normal * 2 * dot(normal, incoming)); incoming (0,0,-1) on
\* normal (0,0,1) gives (0,0,1); a ray travelling exactly against a unit
\* normal along an axis is reversed.
ReflectedRay ==
    pc = "done" =>
        /\ unwrap(ret).start = args.point
        /\ unwrap(ret).direction = ReflectedDirection(ray.direction, args.normal)
        /\ (same(ray.direction, Vec(0, 0, -1)) /\ args.normal = Vec(0, 0, 1))
                => same(unwrap(ret).direction, Vec(0, 0, 1))
        /\ (args.normal \in AxisNormals /\ same(ray.direction, neg(args.normal)))
                => same(unwrap(ret).direction, args.normal)

\* C5 witness: the ray along (0,0,-1) reflected on the normal (0,0,1).
ReflectedStraightBack ==
    /\ pc = "done"
    /\ same(ray.direction, Vec(0, 0, -1))
    /\ args.normal = Vec(0, 0, 1)
    /\ unwrap(ret).start = args.point
    /\ same(unwrap(ret).direction, Vec(0, 0, 1))

\* what C6 says of a stored direction: unit length, and collinear with the
\* supplied one and pointing the same way, each up to rounding
UnitAndCollinear(stored, supplied) ==
    /\ Near(length(stored), Int2f32(1), f32_mul(Int2f32(4), EPSILON))
    /\ ~HasNaN(stored)
    /\ stored.x.s = supplied.x.s /\ stored.y.s = supplied.y.s /\ stored.z.s = supplied.z.s
    /\ f32_le(length(cross(stored, supplied)),
              f32_mul(f32_mul(Int2f32(4), EPSILON), length(supplied)))

InSquareRange(x) ==
    x.k = "fin" /\ (x.m = 0 \/ (IsNormal(x) /\ BitLen(x.m) + x.e < MAX_EXP))

\* (2 * area)^2
FourAreaSquared(a) == f32_mul(f32_mul(Int2f32(2), a), f32_mul(Int2f32(2), a))

\* C7 as amended: 2 * area is the length of the cross product of the two
\* edges from corner 0, exactly; (2 * area)^2 is its squared length within
\* 2 * EPSILON times that squared length, when that squared length is zero
\* or a normal number below 2^127; the area of the test triangle is 1.5.
AreaIsHalfCross ==
    pc = "done" =>
        /\ f32_mul(Int2f32(2), unwrap(ret)) = length(edge_cross(tri))
        /\ InSquareRange(length_sq(edge_cross(tri))) =>
                Near(FourAreaSquared(unwrap(ret)), length_sq(edge_cross(tri)),
                     f32_mul(f32_mul(Int2f32(2), EPSILON), length_sq(edge_cross(tri))))
        /\ tri = TestTriangle => unwrap(ret) = Fin(0, 3, -1)

\* C7 witness: the area of a triangle whose cross product has squared length
\* 2 is half the rounded square root of 2, whose square is not 2.
AreaOfRootTwo ==
    /\ pc = "done"
    /\ length_sq(edge_cross(tri)) = Int2f32(2)
    /\ f32_mul(Int2f32(2), unwrap(ret)) = f32_sqrt(Int2f32(2))
    /\ ~f32_eq(FourAreaSquared(unwrap(ret)), Int2f32(2))

\* C7 as stated: (2 * area)^2 equals the squared length of the cross product
\* for every triangle, and the area of the test triangle is 1.5.
AreaSquaredExact ==
    pc = "done" =>
        /\ f32_eq(FourAreaSquared(unwrap(ret)), length_sq(edge_cross(tri)))
        /\ tri = TestTriangle => unwrap(ret) = Fin(0, 3, -1)

\* C8 as amended: cross(a, b) equals -cross(b, a) component by component
\* unless a component is NaN, and its dot products with a and with b are 0
\* when the components of a and b are integers of magnitude at most 100.
CrossOfIntegers ==
    pc = "done" =>
        /\ ~HasNaN(unwrap(ret)) => same(unwrap(ret), neg(cross(args.b, args.a)))
        /\ (IsSmallIntVector(args.a) /\ IsSmallIntVector(args.b)) =>
                /\ f32_eq(mul(unwrap(ret), args.a), Zero(0))
                /\ f32_eq(mul(unwrap(ret), args.b), Zero(0))

\* C8 witness: the cross product of two integer vectors that are not
\* parallel.
CrossOfIntegersNonZero ==
    /\ pc = "done"
    /\ IsSmallIntVector(args.a) /\ IsSmallIntVector(args.b)
    /\ ~same(unwrap(ret), Vec(0, 0, 0))
    /\ same(unwrap(ret), neg(cross(args.b, args.a)))
    /\ f32_eq(mul(unwrap(ret), args.a), Zero(0))
    /\ f32_eq(mul(unwrap(ret), args.b), Zero(0))

\* C8 as stated: for all a and b, cross(a, b) == -cross(b, a) and the dot
\* products of cross(a, b) with a and with b are 0.
CrossPerpendicular ==
    pc = "done" =>
        /\ eq(unwrap(ret), neg(cross(args.b, args.a)))
        /\ f32_eq(mul(unwrap(ret), args.a), Zero(0))
        /\ f32_eq(mul(unwrap(ret), args.b), Zero(0))

\* t = a / b
plane_t(self, r) == f32_div(plane_a(self, r), plane_b(self, r))

BounceIsOrdinaryQuery ==
    (pc = "hit_point" /\ is_some(prev)) =>
        /\ ray.start = unwrap(prev).hit.point
        /\ is_some(info) <=> (/\ ~f32_eq(plane_b(tri, ray), Zero(0))
                              /\ contains(tri, crossing(tri, ray)))

\* C10 witness: a reflected ray, not parallel to the plane, that reports no
\* hit.
BounceLosesHit ==
    /\ pc = "hit_point"
    /\ is_some(prev)
    /\ ray.start = unwrap(prev).hit.point
    /\ ~f32_eq(plane_b(tri, ray), Zero(0))
    /\ info = None

\* C10 as stated: hit_info on the reflected ray reports a hit again, at the
\* previous hit point.
BounceHitsAgain ==
    (pc = "hit_point" /\ is_some(prev)) =>
        (is_some(info) /\ eq(unwrap(info).point, unwrap(prev).hit.point))

====
